---- MODULE Spec2Model ----
(***************************************************************************)
(* errkit: the canonical error container ErrorX and the recursive          *)
(* decomposition parseError (src/errkit/errors.go).                        *)
(*                                                                         *)
(* A Go string is a sequence of one-character strings.  An error value is  *)
(* a record tagged by the dynamic type the type switch of parseError sees. *)
(***************************************************************************)
EXTENDS Integers, Sequences, FiniteSets, TLC

(***************************************************************************)
(* Bounds of the model                                                     *)
(***************************************************************************)
\* longest list of segments / children of a generated input error
MaxSegs == 4
\* Msgf stops being called once the container holds this many leaves
MaxLeaves == 4
\* number of nodes of a single-child unwrap graph
MaxChain == 2
\* goroutine stack limit, in frames of parseError
MaxStack == 9

(***************************************************************************)
(* Program constants                                                       *)
(***************************************************************************)
MaxErrorDepth == 3

DelimArrow == <<"<", "-">>

\* the Go literal "<-" is the two bytes '<' '-'
DelimArrowSerialized == <<"<", "-">>

DelimSemiColon == <<";", " ">>

DelimMultiLine == <<"\n", " ", "-", " ", " ">>

MultiLineErrPrefix ==
  <<"t","h","e"," ","f","o","l","l","o","w","i","n","g"," ",
    "e","r","r","o","r","s"," ","o","c","c","u","r","r","e","d",":">>

ErrorSeperator == <<";", " ">>

(***************************************************************************)
(* package strings                                                         *)
(***************************************************************************)
HasAt(s, sub, i) ==
  /\ i + Len(sub) - 1 <= Len(s)
  /\ \A k \in 1..Len(sub) : s[i + k - 1] = sub[k]

\* strings.Index, 1-based; 0 when sub does not occur
Index(s, sub) ==
  IF \E i \in 1..(Len(s) + 1) : HasAt(s, sub, i)
  THEN CHOOSE i \in 1..(Len(s) + 1) :
         HasAt(s, sub, i) /\ \A j \in 1..(i - 1) : ~HasAt(s, sub, j)
  ELSE 0

Contains(s, sub) == Index(s, sub) # 0

\* strings.Split(s, sep), sep not empty
RECURSIVE Split(_, _)
Split(s, sep) ==
  LET i == Index(s, sep) IN
  IF i = 0 THEN <<s>>
  ELSE <<SubSeq(s, 1, i - 1)>> \o Split(SubSeq(s, i + Len(sep), Len(s)), sep)

\* strings.Replace(s, old, "", -1)
RECURSIVE RemoveAll(_, _)
RemoveAll(s, old) ==
  LET i == Index(s, old) IN
  IF old = <<>> \/ i = 0 THEN s
  ELSE SubSeq(s, 1, i - 1) \o RemoveAll(SubSeq(s, i + Len(old), Len(s)), old)

IsSpace(c) == c \in {" ", "\n", "\t"}

RECURSIVE TrimLeft(_)
TrimLeft(s) == IF s # <<>> /\ IsSpace(Head(s)) THEN TrimLeft(Tail(s)) ELSE s

RECURSIVE TrimRight(_)
TrimRight(s) ==
  IF s # <<>> /\ IsSpace(s[Len(s)]) THEN TrimRight(SubSeq(s, 1, Len(s) - 1)) ELSE s

\* strings.TrimSpace
TrimSpace(s) == TrimRight(TrimLeft(s))

\* strings.TrimSuffix
TrimSuffix(s, suf) ==
  IF Len(suf) <= Len(s) /\ SubSeq(s, Len(s) - Len(suf) + 1, Len(s)) = suf
  THEN SubSeq(s, 1, Len(s) - Len(suf))
  ELSE s

RECURSIVE Reverse(_)
Reverse(q) == IF q = <<>> THEN <<>> ELSE Reverse(Tail(q)) \o <<Head(q)>>

(***************************************************************************)
(* Error values                                                            *)
(***************************************************************************)
\* the nil error
NilErr == [t |-> "nil"]

\* errors.New(s), and the result of fmt.Errorf as parseError sees a leaf
Plain(s) == [t |-> "plain", s |-> s]

\* a value with Unwrap() []error: its children and its own Error() text
Joined(s, cs) == [t |-> "joined", s |-> s, cs |-> cs]

\* a value with Cause() error and its own Error() text
Cause(s, c) == [t |-> "cause", s |-> s, c |-> c]

\* a node of a graph of values with Unwrap() error: next[i] is the node that
\* node i unwraps to, 0 when its Unwrap() returns nil, -1 when it returns inner
Wrapped(s, next, at, inner) ==
  [t |-> "wrapped", s |-> s, next |-> next, at |-> at, inner |-> inner]

Unwrap(v) ==
  LET n == v.next[v.at] IN
  IF n = 0 THEN NilErr
  ELSE IF n = -1 THEN v.inner
  ELSE [v EXCEPT !.at = n]

\* err.Error() of a value that is not an *ErrorX
ErrStr(err) == err.s

(***************************************************************************)
(* ErrKind (kind.go)                                                       *)
(***************************************************************************)
NilKind == "nil"

ErrKindUnknown == "unknown-error"

Kinds == {ErrKindUnknown, "network-error", "logic-error"}

\* kind.String(): the name, one symbol of the alphabet
KindString(k) == <<k>>

KindRank(k) ==
  CASE k = NilKind -> 0
    [] k = ErrKindUnknown -> 1
    [] k = "logic-error" -> 2
    [] k = "network-error" -> 3

CombineErrKinds(a, b) ==
  IF a = NilKind THEN b
  ELSE IF b = NilKind THEN a
  ELSE IF KindRank(b) > KindRank(a) THEN b ELSE a

(***************************************************************************)
(* ErrorX                                                                  *)
(***************************************************************************)
\* a nil *ErrorX
NilX == [nil |-> TRUE]

\* &ErrorX{}
EmptyX ==
  [nil |-> FALSE, kind |-> NilKind, attrs |-> <<>>, errs |-> <<>>, uniqErrs |-> {}]

\* e.Build(): the container as an error value
Build(e) == [t |-> "errorx", x |-> e]

\* append without the lookup in uniqErrs
RECURSIVE appendNoLookup(_, _)
appendNoLookup(e, errs) ==
  IF errs = <<>> THEN e
  ELSE appendNoLookup([e EXCEPT !.uniqErrs = @ \cup {ErrStr(Head(errs))},
                                !.errs = Append(@, Head(errs))],
                      Tail(errs))

RECURSIVE append(_, _)
append(e, errs) ==
  IF errs = <<>> THEN e
  ELSE LET err == Head(errs)
           key == ErrStr(err)
       IN IF key \in e.uniqErrs
          THEN append(e, Tail(errs))
          ELSE append([e EXCEPT !.uniqErrs = @ \cup {key}, !.errs = Append(@, err)],
                      Tail(errs))

Errors(e) == e.errs

Kind(e) == IF e.kind = NilKind \/ KindString(e.kind) = <<>> THEN ErrKindUnknown ELSE e.kind

\* slog.Attr{Key: k, Value: v}
Attr(k, v) == [key |-> k, val |-> v]

RECURSIVE SetAttrOn(_, _)
SetAttrOn(e, s) ==
  IF s = <<>> THEN e
  ELSE LET attr == Head(s) IN
       IF attr.key \notin DOMAIN e.attrs /\ Cardinality(DOMAIN e.attrs) < MaxErrorDepth
       THEN SetAttrOn([e EXCEPT !.attrs = @ @@ (attr.key :> attr)], Tail(s))
       ELSE SetAttrOn(e, Tail(s))

SetKindOn(e, kind) ==
  IF e.kind = NilKind THEN [e EXCEPT !.kind = kind]
  ELSE [e EXCEPT !.kind = CombineErrKinds(e.kind, kind)]

\* every order in which ranging over a map can visit the keys ks
RECURSIVE Orders(_)
Orders(ks) ==
  IF ks = {} THEN {<<>>}
  ELSE UNION {{<<k>> \o o : o \in Orders(ks \ {k})} : k \in ks}

RECURSIVE AttrList(_, _)
AttrList(attrs, order) ==
  IF order = <<>> THEN <<>>
  ELSE <<attrs[Head(order)].key, "=", attrs[Head(order)].val>>
       \o (IF Tail(order) = <<>> THEN <<>> ELSE <<" ">>)
       \o AttrList(attrs, Tail(order))

\* slog.GroupValue(maps.Values(attrs)...).String() for one visiting order
GroupString(attrs, order) == <<"[">> \o AttrList(attrs, order) \o <<"]">>

RECURSIVE WriteErrs(_)
WriteErrs(errs) ==
  IF errs = <<>> THEN <<>>
  ELSE ErrStr(Head(errs)) \o ErrorSeperator \o WriteErrs(Tail(errs))

\* e.Error() without the final strings.TrimSuffix
ErrorWithTrailing(e, order) ==
  LET k == IF e.kind # NilKind /\ KindString(e.kind) # <<>>
           THEN <<"errKind=">> \o KindString(e.kind) \o <<" ">>
           ELSE <<>>
      a == IF Cardinality(DOMAIN e.attrs) > 0
           THEN GroupString(e.attrs, order) \o <<" ">>
           ELSE <<>>
  IN k \o a \o WriteErrs(e.errs)

\* e.Error() when the attribute map is visited in the given order
ErrorWith(e, order) ==
  LET k == IF e.kind # NilKind /\ KindString(e.kind) # <<>>
           THEN <<"errKind=">> \o KindString(e.kind) \o <<" ">>
           ELSE <<>>
      a == IF Cardinality(DOMAIN e.attrs) > 0
           THEN GroupString(e.attrs, order) \o <<" ">>
           ELSE <<>>
  IN TrimSuffix(k \o a \o WriteErrs(e.errs), ErrorSeperator)

\* the strings e.Error() can return
Error(e) == {ErrorWith(e, order) : order \in Orders(DOMAIN e.attrs)}

(***************************************************************************)
(* The errors and messages the callers pass                                *)
(***************************************************************************)
RECURSIVE JoinWith(_, _)
JoinWith(list, sep) ==
  IF Len(list) = 0 THEN <<>>
  ELSE IF Len(list) = 1 THEN list[1]
  ELSE list[1] \o sep \o JoinWith(Tail(list), sep)

Lists(S, lo, hi) == UNION {[1..n -> S] : n \in lo..hi}

Words == {<<"a">>, <<"b">>, <<"c">>, <<"d">>}

\* segments of a delimiter-joined message
Segs == Words \cup {<<" ", "a">>}

ArrowTexts == {JoinWith(l, <<" ">> \o DelimArrow \o <<" ">>) : l \in Lists(Segs, 1, MaxSegs)}

SemiTexts == {JoinWith(l, DelimSemiColon) : l \in Lists(Segs, 2, MaxSegs)}

MultiLineTexts ==
  {MultiLineErrPrefix \o DelimMultiLine \o JoinWith(l, DelimMultiLine) :
     l \in Lists(Words, 1, MaxSegs - 1)}

MixedTexts ==
  { <<"a", " ", "<", "-", " ", "b", ";", " ", "c">>,
    <<"a", ";", " ", "b", " ", "<", "-", " ", "c">>,
    <<"a", "<", "-", "b">>,
    <<"a", " ", "b">>,
    <<"a", ";", "b">>,
    <<>> }

PlainErrs == {Plain(s) : s \in ArrowTexts \cup SemiTexts \cup MultiLineTexts \cup MixedTexts}

\* children of a joined error
Children == {Plain(s) : s \in Words \cup {<<"a", ";", " ", "b">>, <<"c", " ", "<", "-", " ", "d">>}}

\* errors.Join(cs...), whose text is the children's texts joined by newlines, and a
\* value whose Unwrap() []error is empty
JoinedErrs ==
  {Joined(JoinWith([i \in 1..Len(cs) |-> ErrStr(cs[i])], <<"\n">>), cs) :
     cs \in Lists(Children, 1, MaxSegs)}
  \cup {Joined(s, <<>>) : s \in {<<"a">>, <<"a", ";", " ", "b">>}}

CauseTexts(c) ==
  { c \o <<" ">> \o <<"b", " ", "c">>,
    <<"b", ":", " ">> \o c,
    c \o DelimSemiColon \o <<"b">>,
    c \o <<" ">> \o c \o <<" ", "b">>,
    <<"b">>,
    c }

CauseErrs ==
  UNION {{Cause(s, Plain(c)) : s \in CauseTexts(c)} : c \in {<<"a">>, <<"t", "o">>}}

WrappedErrs ==
  {Wrapped(s, next, 1, Plain(<<"b", " ", "<", "-", " ", "c">>)) :
     s \in {<<"a">>, <<"a", ";", " ", "b">>}, next \in [1..MaxChain -> -1..MaxChain]}

\* containers built elsewhere and handed over as errors
ErrorXErrs ==
  {Build(SetKindOn(append(EmptyX, [i \in 1..Len(l) |-> Plain(l[i])]), k)) :
     l \in Lists(Words, 1, MaxSegs), k \in {NilKind, "network-error"}}

InputErrs == PlainErrs \cup JoinedErrs \cup CauseErrs \cup WrappedErrs \cup ErrorXErrs

\* the unwrap chain 1 -> 2 -> ... -> last, whose last node unwraps to `to`
ChainTo(to) == [i \in 1..MaxChain |-> IF i < MaxChain THEN i + 1 ELSE to]

\* the errors a caller that goes on using the container classifies
CallerErrs ==
  { Plain(<<"a">>),
    Plain(<<"a", " ", "<", "-", " ", "b">>),
    Plain(<<"a", ";", " ", "a", ";", " ", "b", ";", " ", "c", ";", " ", "d">>),
    Plain(MultiLineErrPrefix \o DelimMultiLine \o <<"a">>),
    Joined(<<"a", ";", " ", "b", "\n", "c">>,
           <<Plain(<<"a", ";", " ", "b">>), Plain(<<"c">>)>>),
    Joined(<<"a", "\n", "b", "\n", "c", "\n", "d">>,
           <<Plain(<<"a">>), Plain(<<"b">>), Plain(<<"c">>), Plain(<<"d">>)>>),
    Joined(<<"a", ";", " ", "b">>, <<>>),
    Cause(<<"a", " ", "b", " ", "c">>, Plain(<<"a">>)),
    Wrapped(<<"a", ";", " ", "b">>, ChainTo(0), 1, Plain(<<"c">>)),
    Wrapped(<<"a">>, ChainTo(-1), 1, Plain(<<"b", " ", "<", "-", " ", "c">>)),
    Build(SetKindOn(append(EmptyX, <<Plain(<<"d">>)>>), "logic-error")) }

\* the formatted messages of New and Msgf
Msgs ==
  {<<"a">>, <<"b">>, <<"c">>, <<"a", " ", "<", "-", " ", "b">>, <<" ", "a">>}

AttrArgs == Lists({Attr("k", "1"), Attr("j", "2")}, 0, 2)

KindArgs == {NilKind, ErrKindUnknown, "network-error"}

(***************************************************************************)
(* State                                                                   *)
(***************************************************************************)
VARIABLES
  cur,    \* the *ErrorX the caller holds, NilX when it is nil
  pc,     \* "idle", "parsing" (inside parseError), "panic", "overflow"
  stack,  \* the frames of parseError, innermost first: each frame is the list of
          \* the recursive calls the frame has still to make
  last    \* the last call the caller made: its name and argument, the container
          \* before it, and whether it classified the result of a classification

vars == <<cur, pc, stack, last>>

Called(op, arg, before, re) == [op |-> op, arg |-> arg, before |-> before, re |-> re]

Init ==
  /\ cur = NilX
  /\ pc = "idle"
  /\ stack = <<>>
  /\ last = Called("none", NilErr, NilX, FALSE)

(***************************************************************************)
(* parseError                                                              *)
(***************************************************************************)
\* the default case visiting the arrow-split parts first to last
PlainPartsForward(errString) ==
  LET trimmed(parts) == [i \in 1..Len(parts) |-> Plain(TrimSpace(parts[i]))] IN
  IF Contains(errString, DelimArrow)
  THEN trimmed(Split(errString, DelimArrow))
  ELSE IF Contains(errString, DelimSemiColon)
  THEN trimmed(Split(errString, DelimSemiColon))
  ELSE IF Contains(errString, MultiLineErrPrefix)
  THEN trimmed(Split(RemoveAll(errString, MultiLineErrPrefix), DelimMultiLine))
  ELSE <<>>

\* the recursive calls of the default case, in the order they are made; none when
\* no delimiter occurs in errString
PlainParts(errString) ==
  LET trimmed(parts) == [i \in 1..Len(parts) |-> Plain(TrimSpace(parts[i]))] IN
  IF Contains(errString, DelimArrow)
  THEN Reverse(trimmed(Split(errString, DelimArrow)))
  ELSE IF Contains(errString, DelimArrowSerialized)
  THEN Reverse(trimmed(Split(errString, DelimArrowSerialized)))
  ELSE IF Contains(errString, DelimSemiColon)
  THEN trimmed(Split(errString, DelimSemiColon))
  ELSE IF Contains(errString, MultiLineErrPrefix)
  THEN trimmed(Split(RemoveAll(errString, MultiLineErrPrefix), DelimMultiLine))
  ELSE <<>>

\* the error the running call of parseError was given
Arg == Head(Head(stack))

\* the frames once the running call has returned
Returned == <<Tail(Head(stack))>> \o Tail(stack)

Running ==
  /\ pc = "parsing"
  /\ Head(stack) # <<>>
  /\ Len(cur.errs) < MaxErrorDepth

\* the running call makes the recursive calls `calls`, and the stack of the
\* goroutine overflows when it is full
Recurse(calls) ==
  IF Len(stack) < MaxStack
  THEN /\ stack' = <<calls>> \o Returned
       /\ pc' = pc
  ELSE /\ stack' = stack
       /\ pc' = "overflow"

\* a frame that has no call left returns; the outermost one is FromError's
Return ==
  /\ pc = "parsing"
  /\ Head(stack) = <<>>
  /\ stack' = Tail(stack)
  /\ pc' = IF Tail(stack) = <<>> THEN "idle" ELSE pc
  /\ UNCHANGED <<cur, last>>

DepthGuard ==
  /\ pc = "parsing"
  /\ Head(stack) # <<>>
  /\ Len(cur.errs) >= MaxErrorDepth
  /\ stack' = Returned
  /\ UNCHANGED <<cur, pc, last>>

\* the *ErrorX case decomposing the leaves of v again
ParseErrorXAgain ==
  /\ Running
  /\ Arg.t = "errorx"
  /\ cur' = [cur EXCEPT !.kind = CombineErrKinds(cur.kind, Arg.x.kind)]
  /\ Recurse(Arg.x.errs)
  /\ UNCHANGED last

ParseErrorX ==
  /\ Running
  /\ Arg.t = "errorx"
  /\ cur' = [append(cur, Arg.x.errs) EXCEPT !.kind = CombineErrKinds(cur.kind, Arg.x.kind)]
  /\ stack' = Returned
  /\ UNCHANGED <<pc, last>>

ParseJoined ==
  /\ Running
  /\ Arg.t = "joined"
  /\ IF Arg.cs # <<>>
     THEN /\ cur' = append(cur, Arg.cs)
          /\ stack' = Returned
          /\ pc' = pc
     ELSE /\ cur' = cur
          /\ Recurse(<<Plain(ErrStr(Arg))>>)
  /\ UNCHANGED last

ParseWrapped ==
  /\ Running
  /\ Arg.t = "wrapped"
  /\ IF Unwrap(Arg) # NilErr
     THEN Recurse(<<Unwrap(Arg)>>)
     ELSE Recurse(<<Plain(ErrStr(Arg))>>)
  /\ UNCHANGED <<cur, last>>

ParseCause ==
  /\ Running
  /\ Arg.t = "cause"
  /\ cur' = append(cur, <<Arg.c>>)
  /\ Recurse(<<Plain(RemoveAll(ErrStr(Arg), ErrStr(Arg.c)))>>)
  /\ UNCHANGED last

ParseSplit ==
  /\ Running
  /\ Arg.t = "plain"
  /\ PlainParts(ErrStr(Arg)) # <<>>
  /\ Recurse(PlainParts(ErrStr(Arg)))
  /\ UNCHANGED <<cur, last>>

ParseLeaf ==
  /\ Running
  /\ Arg.t = "plain"
  /\ PlainParts(ErrStr(Arg)) = <<>>
  /\ cur' = append(cur, <<Arg>>)
  /\ stack' = Returned
  /\ UNCHANGED <<pc, last>>

(***************************************************************************)
(* The calls of the caller                                                 *)
(***************************************************************************)
\* FromError up to the call of parseError; `before` and `re` are what the caller
\* built err from
Classify(err, before, re) ==
  /\ pc = "idle"
  /\ last' = Called("FromError", err, before, re)
  /\ IF err = NilErr
     THEN /\ cur' = NilX
          /\ UNCHANGED <<pc, stack>>
     ELSE /\ cur' = EmptyX
          /\ stack' = <<<<err>>>>
          /\ pc' = "parsing"

FromError(err) == Classify(err, NilX, FALSE)

\* FromError(e.Build())
FromBuild ==
  /\ cur # NilX
  /\ Classify(Build(cur), cur, last.op = "FromError")

\* FromError(errors.New(e.Error())) of a container that has no kind and no
\* attributes
FromErrorString ==
  /\ cur # NilX
  /\ cur.kind = NilKind
  /\ DOMAIN cur.attrs = {}
  /\ \E r \in Error(cur) : Classify(Plain(r), cur, FALSE)

New(format) ==
  /\ pc = "idle"
  /\ cur' = append(EmptyX, <<Plain(format)>>)
  /\ last' = Called("New", format, NilX, FALSE)
  /\ UNCHANGED <<pc, stack>>

Msgf(format) ==
  /\ pc = "idle"
  /\ cur # NilX => Len(cur.errs) < MaxLeaves
  /\ cur' = IF cur = NilX THEN cur ELSE append(cur, <<Plain(format)>>)
  /\ last' = Called("Msgf", format, cur, FALSE)
  /\ UNCHANGED <<pc, stack>>

\* e.kind of a nil e is a nil pointer dereference
SetKind(kind) ==
  /\ pc = "idle"
  /\ IF cur = NilX
     THEN /\ pc' = "panic"
          /\ cur' = cur
     ELSE /\ cur' = SetKindOn(cur, kind)
          /\ pc' = pc
  /\ last' = Called("SetKind", NilErr, NilX, FALSE)
  /\ UNCHANGED stack

\* e.attrs of a nil e is a nil pointer dereference, reached when s is not empty
SetAttr(s) ==
  /\ pc = "idle"
  /\ IF cur = NilX
     THEN /\ pc' = IF s # <<>> THEN "panic" ELSE pc
          /\ cur' = cur
     ELSE /\ cur' = SetAttrOn(cur, s)
          /\ pc' = pc
  /\ last' = Called("SetAttr", NilErr, NilX, FALSE)
  /\ UNCHANGED stack

\* one step of a running parseError
ParseNext ==
  \/ Return
  \/ DepthGuard
  \/ ParseErrorX
  \/ ParseJoined
  \/ ParseWrapped
  \/ ParseCause
  \/ ParseSplit
  \/ ParseLeaf

Next ==
  \/ \E err \in CallerErrs \cup {NilErr} : FromError(err)
  \/ FromBuild
  \/ FromErrorString
  \/ \E format \in Msgs : New(format)
  \/ \E format \in Msgs : Msgf(format)
  \/ \E kind \in KindArgs : SetKind(kind)
  \/ \E s \in AttrArgs : SetAttr(s)
  \/ ParseNext

\* a caller that builds, classifies and mutates containers
Spec == Init /\ [][Next]_vars

\* FromError(err) has just called parseError, for each err of InputErrs
InitParse ==
  /\ cur = EmptyX
  /\ pc = "parsing"
  /\ \E err \in InputErrs :
       /\ stack = <<<<err>>>>
       /\ last = Called("FromError", err, NilX, FALSE)

\* one call of FromError, from the call of parseError to its return
SpecParse == InitParse /\ [][ParseNext]_vars

(***************************************************************************)
(* Properties                                                              *)
(***************************************************************************)
Range(q) == {q[i] : i \in 1..Len(q)}

\* the Error() texts of a list of errors
Texts(errs) == [i \in 1..Len(errs) |-> ErrStr(errs[i])]

\* FromError was given a non-nil error and has returned cur
FromErrorDone == pc = "idle" /\ last.op = "FromError" /\ last.arg # NilErr

\* no delimiter marker occurs in s
MarkerFree(s) ==
  /\ ~Contains(s, DelimArrow)
  /\ ~Contains(s, DelimArrowSerialized)
  /\ ~Contains(s, DelimSemiColon)
  /\ ~Contains(s, MultiLineErrPrefix)

NoDuplicates(q) == \A i, j \in 1..Len(q) : q[i] = q[j] => i = j

\* C1: in every state of a container the number of leaves is at most
\* MaxErrorDepth.
C1_LeavesWithinDepth == cur # NilX => Len(Errors(cur)) <= MaxErrorDepth

\* the distinct leaf texts an error carries as delimiter-joined text, as the
\* children of a multi-child Unwrap, or as the leaves of an ErrorX
NestedLeafTexts(err) ==
  CASE err.t = "plain" -> Range(Texts(PlainParts(ErrStr(err))))
    [] err.t = "joined" -> Range(Texts(err.cs))
    [] err.t = "errorx" -> Range(Texts(err.x.errs))
    [] OTHER -> {}

\* C2: FromError of an error that carries more than MaxErrorDepth distinct
\* nested leaves returns a container of exactly MaxErrorDepth leaves.
C2_ExactlyDepthLeaves ==
  (FromErrorDone /\ Cardinality(NestedLeafTexts(last.arg)) > MaxErrorDepth)
    => Len(Errors(cur)) = MaxErrorDepth

\* C3: no two leaves of a container have the same text, at any point of any
\* sequence of calls; Msgf of a text that is already a leaf leaves the leaves as
\* they were, and Msgf of a new text appends it after them.
C3_NoDuplicateLeaves ==
  /\ cur # NilX => NoDuplicates(Texts(Errors(cur)))
  /\ (last.op = "Msgf" /\ last.before # NilX)
       => Errors(cur) =
            IF last.arg \in Range(Texts(Errors(last.before)))
            THEN Errors(last.before)
            ELSE Append(Errors(last.before), Plain(last.arg))

C3_Witness ==
  /\ last.op = "Msgf"
  /\ last.before # NilX
  /\ Len(Errors(last.before)) >= 2
  /\ last.arg = ErrStr(Errors(last.before)[1])
  /\ Errors(cur) = Errors(last.before)

\* C4: a mutator called on a nil *ErrorX returns normally and leaves it nil.
C4_NilReceiverIsNoOp ==
  (cur = NilX /\ last.op \in {"Msgf", "SetKind", "SetAttr"}) => pc = "idle"

\* the segments of a message joined by " <- "
ArrowSegs(s) == Split(s, <<" ">> \o DelimArrow \o <<" ">>)

\* a plain error whose message is at most MaxErrorDepth non-empty marker-free
\* segments joined by " <- "
ArrowJoined(err) ==
  /\ err.t = "plain"
  /\ Len(ArrowSegs(err.s)) <= MaxErrorDepth
  /\ \A seg \in Range(ArrowSegs(err.s)) : seg # <<>> /\ MarkerFree(seg)

\* C5 as stated: the leaves are the segments in reversed order and Error() of
\* the result is the original message.
C5_RendersOriginal ==
  (FromErrorDone /\ ArrowJoined(last.arg) /\ NoDuplicates(ArrowSegs(last.arg.s)))
    => /\ Texts(Errors(cur)) = Reverse(ArrowSegs(last.arg.s))
       /\ Error(cur) = {last.arg.s}

\* C5 amended: for segments that have no white space at either end, the leaves
\* are the segments in reversed order and Error() of the result is these leaves
\* joined by the separator "; ".
C5_ReversedLeaves ==
  (/\ FromErrorDone
   /\ ArrowJoined(last.arg)
   /\ NoDuplicates(ArrowSegs(last.arg.s))
   /\ \A seg \in Range(ArrowSegs(last.arg.s)) : TrimSpace(seg) = seg)
    => /\ Texts(Errors(cur)) = Reverse(ArrowSegs(last.arg.s))
       /\ Error(cur) = {JoinWith(Reverse(ArrowSegs(last.arg.s)), ErrorSeperator)}

C5_Witness ==
  /\ FromErrorDone
  /\ ArrowJoined(last.arg)
  /\ NoDuplicates(ArrowSegs(last.arg.s))
  /\ \A seg \in Range(ArrowSegs(last.arg.s)) : TrimSpace(seg) = seg
  /\ Len(ArrowSegs(last.arg.s)) = MaxErrorDepth
  /\ Texts(Errors(cur)) = Reverse(ArrowSegs(last.arg.s))

\* C6: for a cause c and a message m that contains c and whose remainder holds
\* no delimiter, the leaves are c and then m with c removed and trimmed.
C6_CauseThenTrimmedRemainder ==
  (/\ FromErrorDone
   /\ last.arg.t = "cause"
   /\ Contains(last.arg.s, ErrStr(last.arg.c))
   /\ MarkerFree(RemoveAll(last.arg.s, ErrStr(last.arg.c)))
   /\ TrimSpace(RemoveAll(last.arg.s, ErrStr(last.arg.c))) # ErrStr(last.arg.c))
    => Texts(Errors(cur)) =
         <<ErrStr(last.arg.c), TrimSpace(RemoveAll(last.arg.s, ErrStr(last.arg.c)))>>

\* C7: FromError of the Build() of a container that FromError returned returns
\* the same leaves in the same order and the same Kind().
C7_ClassifyIdempotent ==
  (FromErrorDone /\ last.re)
    => /\ Errors(cur) = Errors(last.before)
       /\ Kind(cur) = Kind(last.before)

C7_Witness ==
  /\ FromErrorDone
  /\ last.re
  /\ Len(Errors(cur)) >= 2
  /\ \E leaf \in Range(Errors(cur)) : ~MarkerFree(ErrStr(leaf))

\* FromError(errors.New(e.Error())) of a container e of three leaves has returned
RoundTripDone ==
  /\ FromErrorDone
  /\ last.arg.t = "plain"
  /\ last.before # NilX
  /\ Len(Errors(last.before)) = 3

\* C8 as stated: for any three leaves a, b, c the rendering is "a; b; c" and
\* classifying it gives the leaves a, b, c again.
C8_RoundTrip ==
  RoundTripDone
    => /\ last.arg.s = JoinWith(Texts(Errors(last.before)), ErrorSeperator)
       /\ Texts(Errors(cur)) = Texts(Errors(last.before))

\* C8 amended: the same, for leaves that hold no delimiter marker and have no
\* white space at either end.
C8_RoundTripOfCleanLeaves ==
  (/\ RoundTripDone
   /\ \A leaf \in Range(Texts(Errors(last.before))) :
        MarkerFree(leaf) /\ TrimSpace(leaf) = leaf)
    => /\ last.arg.s = JoinWith(Texts(Errors(last.before)), ErrorSeperator)
       /\ Texts(Errors(cur)) = Texts(Errors(last.before))

C8_Witness ==
  /\ RoundTripDone
  /\ \A leaf \in Range(Texts(Errors(last.before))) :
       MarkerFree(leaf) /\ TrimSpace(leaf) = leaf
  /\ Len(Errors(cur)) = 3

\* C9: no call of parseError exhausts the stack of its goroutine, so that every
\* call of FromError returns.
C9_ParseErrorReturns == pc # "overflow"

\* parseError(to, err) for each err of a list of plain errors, in order
RECURSIVE DecomposeEach(_, _)
DecomposeEach(to, errs) ==
  IF errs = <<>> THEN to
  ELSE LET err == Head(errs)
           parts == PlainParts(ErrStr(err))
           done == IF Len(to.errs) >= MaxErrorDepth THEN to
                   ELSE IF parts = <<>> THEN append(to, <<err>>)
                   ELSE DecomposeEach(to, parts)
       IN DecomposeEach(done, Tail(errs))

\* C10: the leaves of an error with children are those of decomposing child 1,
\* then child 2, ... into the same container.
C10_RecursesIntoChildren ==
  (FromErrorDone /\ last.arg.t = "joined" /\ last.arg.cs # <<>>)
    => Errors(cur) = Errors(DecomposeEach(EmptyX, last.arg.cs))

====
